---- MODULE Spec2Model ----
(***************************************************************************)
(* Attestation indexing and projection engine of easter-indexer-v2.        *)
(*                                                                         *)
(* The model follows the newer source variant (src/unnamed/part_000 with   *)
(* the second half of src/start.ts): update() runs one poll cycle over the *)
(* creation stream and then the revocation stream behind the `running`     *)
(* flag, the provider.on handler runs updateDbFromRelevantLog for pushed   *)
(* logs, and both write the same Prisma tables.  Every `await` of the      *)
(* source that touches the database or the upstream node is one step, so   *)
(* handlers interleave exactly where the event loop lets them.             *)
(***************************************************************************)
EXTENDS Integers, Sequences, FiniteSets, TLC

\* ------------------------------------------------------------------ bounds
MaxChain == 2          \* logs emitted by the chain during a run
NumPollers == 2        \* invocations of update() that may be pending
NumLive == 1           \* provider.on handlers that may run at once
MaxRevTime == 1        \* revocation times answered by the upstream node
MaxLiveUID == 2        \* attestations emitted while live handlers run
MaxCalls == 6          \* calls of getFormattedAttestationFromLog in a run
MaxTries == 3          \* value at which the model stops counting tries

\* --------------------------------------------------------------- constants
CONTRACT_START_BLOCK == 1
Concurrency == 5       \* const limit = pLimit(5)
HashZero == 0
makePostUID == "post"
likeUID == "like"
usernameUID == "username"
followUID == "follow"
otherUID == "other"
attestedEventSignature == "Attested"
revokedEventSignature == "Revoked"
EASContractAddress == "EAS"
latestAttestationBlockNum == "latestAttestationBlockNum"
latestAttestationRevocationBlockNum == "latestAttestationRevocationBlockNum"

Pollers == 1..NumPollers
Lives == (NumPollers + 1)..(NumPollers + NumLive)
Tasks == Pollers \cup Lives
RevTimes == 0..MaxRevTime
StatNames == {latestAttestationBlockNum, latestAttestationRevocationBlockNum}

\* What the link-preview block of processPostAttestation meets for the text
\* of a post: no URL in the text, a page with a title, a page without one,
\* or a failure of one of its four awaits.
PreviewFailures == {"fetchFails", "imageFails", "resizeFails", "createFails"}
PreviewOutcomes == {"noUrl", "ok", "noTitle"} \cup PreviewFailures

\* The attestations the upstream ledger can hold.  An attestation id is
\* content-addressed, so an id has one content for the whole run.  preview
\* is the outcome the text of a post leads to.
Ledger ==
  << [schemaId |-> makePostUID, attester |-> "a1", recipient |-> "a2",
      refUID |-> HashZero, dataOk |-> TRUE, name |-> "", time |-> 11,
      preview |-> "ok"],
     [schemaId |-> likeUID, attester |-> "a2", recipient |-> "a1",
      refUID |-> 1, dataOk |-> TRUE, name |-> "", time |-> 12,
      preview |-> "noUrl"],
     [schemaId |-> makePostUID, attester |-> "a2", recipient |-> "a2",
      refUID |-> HashZero, dataOk |-> FALSE, name |-> "", time |-> 11,
      preview |-> "noUrl"],
     [schemaId |-> likeUID, attester |-> "a1", recipient |-> "a2",
      refUID |-> 3, dataOk |-> TRUE, name |-> "", time |-> 12,
      preview |-> "noUrl"],
     [schemaId |-> makePostUID, attester |-> "a2", recipient |-> "a1",
      refUID |-> 1, dataOk |-> TRUE, name |-> "", time |-> 11,
      preview |-> "fetchFails"],
     [schemaId |-> makePostUID, attester |-> "a1", recipient |-> "a1",
      refUID |-> 1, dataOk |-> FALSE, name |-> "", time |-> 12,
      preview |-> "noUrl"],
     [schemaId |-> followUID, attester |-> "a1", recipient |-> "a2",
      refUID |-> HashZero, dataOk |-> TRUE, name |-> "", time |-> 11,
      preview |-> "noUrl"],
     [schemaId |-> usernameUID, attester |-> "a1", recipient |-> "a1",
      refUID |-> HashZero, dataOk |-> TRUE, name |-> "alice", time |-> 12,
      preview |-> "noUrl"],
     [schemaId |-> otherUID, attester |-> "a2", recipient |-> "a1",
      refUID |-> HashZero, dataOk |-> TRUE, name |-> "", time |-> 11,
      preview |-> "noUrl"],
     [schemaId |-> makePostUID, attester |-> "a2", recipient |-> "a2",
      refUID |-> HashZero, dataOk |-> TRUE, name |-> "", time |-> 12,
      preview |-> "noUrl"] >>

UIDs == 1..Len(Ledger)

VARIABLES
  chain,        \* the logs emitted so far, in block order
  db,           \* read model: [users, posts, likes, follows], sets of rows
  serviceStat,  \* ServiceStat rows: [name, value], value a decimal string
  running,      \* start.ts: let running
  subscribed,   \* go() has registered the provider.on handler
  task,         \* per invocation: position and locals of the async function
  call,         \* what the last direct call of a projection function was
  resolutions,  \* the calls of getFormattedAttestationFromLog, counted
  dispatched    \* the events handed to a projection function so far

vars ==
  <<chain, db, serviceStat, running, subscribed, task, call, resolutions,
    dispatched>>

\* ------------------------------------------------- decimal string <-> number
\* lastBlock.toString(): the digits of a non-negative integer below 100.
toString(n) == IF n < 10 THEN <<n>> ELSE <<n \div 10, n % 10>>

\* Number(value) of a stored decimal string.
Number(s) ==
  IF Len(s) = 0 THEN 0
  ELSE IF Len(s) = 1 THEN s[1] ELSE 10 * s[1] + s[2]

\* ------------------------------------------------------------ table lookups
Has(tbl, k) == \E r \in tbl : r.id = k
Row(tbl, k) == CHOOSE r \in tbl : r.id = k

HasStat(stat, n) == \E r \in stat : r.name = n
StatRow(stat, n) == CHOOSE r \in stat : r.name = n

\* The stored checkpoint as a number; -1 stands for "no row".
StatVal(stat, n) == IF HasStat(stat, n) THEN Number(StatRow(stat, n).value) ELSE -1

\* -------------------------------------------- getFormattedAttestationFromLog
\* The record built from the upstream answer for log.data = uid.
Attestation(uid) ==
  [id |-> uid, schemaId |-> Ledger[uid].schemaId,
   attester |-> Ledger[uid].attester, recipient |-> Ledger[uid].recipient,
   refUID |-> Ledger[uid].refUID, dataOk |-> Ledger[uid].dataOk,
   name |-> Ledger[uid].name, time |-> Ledger[uid].time,
   preview |-> Ledger[uid].preview]

\* ------------------------------------------------ processCreatedAttestation
schemasToProcess == {makePostUID, likeUID, followUID, usernameUID}

\* Variant: a new user is named after its address.
NewUserNamed(addr, att) == [id |-> addr, name |-> addr, createdAt |-> att.time]

\* data of prisma.user.create: the name defaults to the empty string.
NewUser(addr, att) == [id |-> addr, name |-> "", createdAt |-> att.time]

\* processPostAttestation up to its first await: the payload is decoded
\* synchronously, a failure is caught and ends the call.
PostEntry(att) ==
  IF ~att.dataOk THEN "done"
  ELSE IF att.refUID # HashZero THEN "findParent" ELSE "createPost"

\* The if / else-if chain on attestation.schemaId, up to the first await of
\* the branch taken.
Branch(att) ==
  IF att.schemaId = likeUID THEN "findPostToLike"
  ELSE IF att.schemaId = makePostUID THEN PostEntry(att)
  ELSE IF att.schemaId = usernameUID THEN
         (IF att.dataOk THEN "updateName" ELSE "done")
  ELSE IF att.schemaId = followUID THEN "createFollow"
  ELSE "done"

\* Locals of one call of processCreatedAttestation at its entry.
PCAStart == [sub |-> "findAttester", parentId |-> HashZero]

Ret(d, sub, parentId, err) ==
  [db |-> d, l |-> [sub |-> sub, parentId |-> parentId], err |-> err]

\* prisma.user.create outside any try: a duplicate id raises P2002 to the
\* caller of processCreatedAttestation.
CreateUser(d, addr, att, next) ==
  IF Has(d.users, addr)
    THEN Ret(d, "done", HashZero, "P2002")
    ELSE Ret([d EXCEPT !.users = @ \cup {NewUser(addr, att)}], next, HashZero, "none")

\* Variant: the create is not guarded by schemasToProcess.
FindUserAnySchema(d, addr, att, create, next) ==
  Ret(d, IF ~Has(d.users, addr) THEN create ELSE next, HashZero, "none")

\* prisma.user.findUnique and the test that guards the create.
FindUser(d, addr, att, create, next) ==
  Ret(d, IF ~Has(d.users, addr) /\ att.schemaId \in schemasToProcess
           THEN create ELSE next,
      HashZero, "none")

\* prisma.post.findUnique({id: refUID}) of the like branch.
FindPostToLike(d, att) ==
  Ret(d, IF Has(d.posts, att.refUID) THEN "createLike" ELSE "done", HashZero, "none")

\* prisma.like.create inside try: a duplicate id or a missing post or user
\* row is caught and logged.
CreateLike(d, att) ==
  IF Has(d.likes, att.id) \/ ~Has(d.posts, att.refUID) \/ ~Has(d.users, att.attester)
    THEN Ret(d, "done", HashZero, "none")
    ELSE Ret([d EXCEPT !.likes = @ \cup
                {[id |-> att.id, postId |-> att.refUID, userId |-> att.attester,
                  createdAt |-> att.time, revokedAt |-> 0]}],
             "done", HashZero, "none")

\* Variant: the reference is kept without looking the parent up.
FindParentKeepRef(d, att) == Ret(d, "createPost", att.refUID, "none")

\* prisma.post.findUnique({id: refUID}) of processPostAttestation.
FindParent(d, att) ==
  Ret(d, "createPost",
      IF Has(d.posts, att.refUID) THEN att.refUID ELSE HashZero, "none")

\* if (urls.length > 0): the link-preview block is entered when the text of
\* the post holds a URL.
PreviewEntry(att) == IF att.preview = "noUrl" THEN "done" ELSE "linkPreview"

\* Variant: post and preview are one transaction, a failure of the preview
\* takes the post back.
LinkPreviewRollback(d, att) ==
  IF att.preview \in PreviewFailures
    THEN Ret([d EXCEPT !.posts = {r \in @ : r.id # att.id}], "done", HashZero, "none")
  ELSE IF att.preview = "ok"
    THEN Ret([d EXCEPT !.linkPreviews = @ \cup
                {[postId |-> att.id, createdAt |-> att.time]}],
             "done", HashZero, "none")
  ELSE Ret(d, "done", HashZero, "none")

\* The link-preview block: fetchMetaTags, the image download and resize, and
\* prisma.linkPreview.create when the page has a title.  Whatever is thrown
\* inside is caught and logged.
LinkPreview(d, att) ==
  IF att.preview = "ok"
    THEN Ret([d EXCEPT !.linkPreviews = @ \cup
                {[postId |-> att.id, createdAt |-> att.time]}],
             "done", HashZero, "none")
    ELSE Ret(d, "done", HashZero, "none")

\* Variant: the create is not inside a try, a duplicate id reaches the caller.
CreatePostUncaught(d, att, parentId) ==
  IF Has(d.posts, att.id)
    THEN Ret(d, "done", HashZero, "P2002")
    ELSE Ret([d EXCEPT !.posts = @ \cup
                {[id |-> att.id, userId |-> att.attester,
                  recipientId |-> att.recipient, parentId |-> parentId,
                  createdAt |-> att.time, revokedAt |-> 0]}],
             PreviewEntry(att), HashZero, "none")

\* Variant: the post is inserted with revokedAt set to its creation time.
CreatePostRevoked(d, att, parentId) ==
  IF Has(d.posts, att.id) \/ ~Has(d.users, att.attester)
     \/ ~Has(d.users, att.recipient)
    THEN Ret(d, "done", HashZero, "none")
    ELSE Ret([d EXCEPT !.posts = @ \cup
                {[id |-> att.id, userId |-> att.attester,
                  recipientId |-> att.recipient, parentId |-> parentId,
                  createdAt |-> att.time, revokedAt |-> att.time]}],
             PreviewEntry(att), HashZero, "none")

\* prisma.post.create inside the try of processPostAttestation; parentId
\* HashZero stands for null.
CreatePost(d, att, parentId) ==
  IF Has(d.posts, att.id) \/ ~Has(d.users, att.attester)
     \/ ~Has(d.users, att.recipient)
    THEN Ret(d, "done", HashZero, "none")
    ELSE Ret([d EXCEPT !.posts = @ \cup
                {[id |-> att.id, userId |-> att.attester,
                  recipientId |-> att.recipient, parentId |-> parentId,
                  createdAt |-> att.time, revokedAt |-> 0]}],
             PreviewEntry(att), HashZero, "none")

\* Variant: the update has no where clause and renames every user.
UpdateNameAll(d, att) ==
  Ret([d EXCEPT !.users = {[q EXCEPT !.name = att.name] : q \in @}],
      "done", HashZero, "none")

\* prisma.user.update({id: attester}, {name}) inside try.
UpdateName(d, att) ==
  IF ~Has(d.users, att.attester)
    THEN Ret(d, "done", HashZero, "none")
    ELSE Ret([d EXCEPT !.users =
                (@ \ {Row(d.users, att.attester)}) \cup
                {[Row(d.users, att.attester) EXCEPT !.name = att.name]}],
             "done", HashZero, "none")

\* prisma.follow.create inside try.
CreateFollow(d, att) ==
  IF Has(d.follows, att.id) \/ ~Has(d.users, att.attester)
     \/ ~Has(d.users, att.recipient)
    THEN Ret(d, "done", HashZero, "none")
    ELSE Ret([d EXCEPT !.follows = @ \cup
                {[id |-> att.id, followerId |-> att.attester,
                  followingId |-> att.recipient, createdAt |-> att.time,
                  revokedAt |-> 0]}],
             "done", HashZero, "none")

\* One database call of processCreatedAttestation (and of
\* processPostAttestation, which it awaits) on read model d with locals l.
PCAStep(d, att, l) ==
  CASE l.sub = "findAttester" -> FindUser(d, att.attester, att, "createAttester", "findRecipient")
    [] l.sub = "createAttester" -> CreateUser(d, att.attester, att, "findRecipient")
    [] l.sub = "findRecipient" -> FindUser(d, att.recipient, att, "createRecipient", Branch(att))
    [] l.sub = "createRecipient" -> CreateUser(d, att.recipient, att, Branch(att))
    [] l.sub = "findPostToLike" -> FindPostToLike(d, att)
    [] l.sub = "createLike" -> CreateLike(d, att)
    [] l.sub = "findParent" -> FindParent(d, att)
    [] l.sub = "createPost" -> CreatePost(d, att, l.parentId)
    [] l.sub = "linkPreview" -> LinkPreview(d, att)
    [] l.sub = "updateName" -> UpdateName(d, att)
    [] l.sub = "createFollow" -> CreateFollow(d, att)
    [] OTHER -> Ret(d, "done", HashZero, "none")

\* processCreatedAttestation run to its end with no other handler in between.
RECURSIVE RunPCA(_, _, _)
RunPCA(d, att, l) ==
  IF l.sub = "done" THEN [db |-> d, err |-> "none"]
  ELSE LET r == PCAStep(d, att, l)
       IN IF r.err # "none" THEN [db |-> r.db, err |-> r.err]
          ELSE RunPCA(r.db, att, r.l)

processCreatedAttestation(d, att) == RunPCA(d, att, PCAStart)

\* Variant: the update also overwrites createdAt of the matched row.
SetRevokedAtAndCreatedAt(tbl, uid, t) ==
  {IF r.id = uid THEN [r EXCEPT !.revokedAt = t, !.createdAt = t] ELSE r : r \in tbl}

\* ------------------------------------------------ revokeAttestationsFromLogs
SetRevokedAt(tbl, uid, t) ==
  {IF r.id = uid THEN [r EXCEPT !.revokedAt = t] ELSE r : r \in tbl}

\* Variant (the older src/utils.ts): prisma.post.update for every schema,
\* which raises P2025 when no post has the id.
RevokeOneUpdate(d, ans) ==
  IF ~Has(d.posts, ans.uid)
    THEN [db |-> d, err |-> "P2025"]
    ELSE [db |-> [d EXCEPT !.posts = SetRevokedAt(@, ans.uid, ans.revocationTime)],
          err |-> "none"]

\* The body of the loop for one log: ans is the upstream answer
\* [schema, uid, revocationTime]; updateMany changes the rows that match.
RevokeOne(d, ans) ==
  IF ans.schema = makePostUID
    THEN [db |-> [d EXCEPT !.posts = SetRevokedAt(@, ans.uid, ans.revocationTime)],
          err |-> "none"]
  ELSE IF ans.schema = likeUID
    THEN [db |-> [d EXCEPT !.likes = SetRevokedAt(@, ans.uid, ans.revocationTime)],
          err |-> "none"]
  ELSE IF ans.schema = followUID
    THEN [db |-> [d EXCEPT !.follows = SetRevokedAt(@, ans.uid, ans.revocationTime)],
          err |-> "none"]
  ELSE [db |-> d, err |-> "none"]

\* revokeAttestationsFromLogs on the upstream answers of a batch, with no
\* other handler in between.
RECURSIVE revokeAttestationsFromLogs(_, _)
revokeAttestationsFromLogs(d, answers) ==
  IF Len(answers) = 0 THEN [db |-> d, err |-> "none"]
  ELSE LET r == RevokeOne(d, Head(answers))
       IN IF r.err # "none" THEN r
          ELSE revokeAttestationsFromLogs(r.db, Tail(answers))

\* easContract.getAttestation(log.data) as read by the revocation path.
RevAnswer(uid, t) ==
  [schema |-> Ledger[uid].schemaId, uid |-> uid, revocationTime |-> t]

\* ------------------------------------------------------------- checkpoints
\* Variant: the block of the first log of the batch.
getFirstBlockNumberFromLog(logs) ==
  IF Len(logs) # 0 THEN logs[1].blockNumber ELSE 0

getLastBlockNumberFromLog(logs) ==
  IF Len(logs) # 0 THEN logs[Len(logs)].blockNumber ELSE 0

\* Variant: the update is not guarded by lastBlock !== 0.
updateServiceStatUnguarded(stat, shouldCreate, n, lastBlock) ==
  IF shouldCreate /\ ~HasStat(stat, n)
    THEN [stat |-> stat \cup {[name |-> n, value |-> toString(lastBlock)]},
          err |-> "none"]
  ELSE IF HasStat(stat, n)
    THEN [stat |-> (stat \ {StatRow(stat, n)})
                     \cup {[name |-> n, value |-> toString(lastBlock)]},
          err |-> "none"]
  ELSE [stat |-> stat, err |-> "P2025"]

\* prisma.serviceStat.create raises P2002 on an existing name, update raises
\* P2025 on a missing one.
updateServiceStatToLastBlock(stat, shouldCreate, n, lastBlock) ==
  IF shouldCreate
    THEN IF HasStat(stat, n)
           THEN [stat |-> stat, err |-> "P2002"]
           ELSE [stat |-> stat \cup {[name |-> n, value |-> toString(lastBlock)]},
                 err |-> "none"]
  ELSE IF lastBlock # 0
    THEN IF ~HasStat(stat, n)
           THEN [stat |-> stat, err |-> "P2025"]
           ELSE [stat |-> (stat \ {StatRow(stat, n)})
                            \cup {[name |-> n, value |-> toString(lastBlock)]},
                 err |-> "none"]
  ELSE [stat |-> stat, err |-> "none"]

\* getStartData: the row as found and the block to start from.  A stored
\* value is used when the string is non-empty; 0 falls back to the start.
getStartData(stat, n) ==
  LET found == HasStat(stat, n)
      v == IF found /\ Len(StatRow(stat, n).value) > 0
             THEN Number(StatRow(stat, n).value) ELSE CONTRACT_START_BLOCK
  IN [latestBlockNumServiceStat |-> found,
      fromBlock |-> IF v = 0 THEN CONTRACT_START_BLOCK ELSE v]

AttestedSchemas == {makePostUID, likeUID, usernameUID, followUID}
RevokedSchemas == {makePostUID, likeUID, followUID}

StreamSig(n) ==
  IF n = latestAttestationBlockNum THEN attestedEventSignature
  ELSE revokedEventSignature

StreamSchemas(n) ==
  IF n = latestAttestationBlockNum THEN AttestedSchemas ELSE RevokedSchemas

\* provider.getLogs({address, fromBlock: fromBlock + 1, topics}).
getLogs(ch, n, fromBlock) ==
  SelectSeq(ch, LAMBDA lg : /\ lg.address = EASContractAddress
                            /\ lg.blockNumber >= fromBlock + 1
                            /\ lg.sig = StreamSig(n)
                            /\ lg.schema \in StreamSchemas(n))

\* ------------------------------------------------------------------- tasks
\* A task is one invocation of update() (Pollers) or of the provider.on
\* handler (Lives): pc is the await it is suspended at, the rest its locals.
\* pc "rejected" is a handler whose promise rejected; skipped records that
\* the last update() call of a poller returned at `if (running) return`.
IdleTask ==
  [pc |-> "idle", stream |-> latestAttestationBlockNum, rowFound |-> FALSE,
   fromBlock |-> 0, logs |-> <<>>, order |-> <<>>, idx |-> 0, l |-> PCAStart,
   skipped |-> FALSE]

StartTask(n) == [IdleTask EXCEPT !.pc = "start", !.stream = n]

NoCall == "none"

EmptyDb ==
  [users |-> {}, posts |-> {}, likes |-> {}, follows |-> {}, linkPreviews |-> {}]

\* The ids easContract.getAttestation can answer with.
UpstreamIds == {HashZero, 1, 2}

\* Where a started call of getFormattedAttestationFromLog can be suspended.
ActiveKinds == {"polling", "delaying"} \X (1..MaxTries)

\* No call of getFormattedAttestationFromLog has been made.
NoResolution ==
  [queued |-> 0, made |-> 0, active |-> [k \in ActiveKinds |-> 0],
   last |-> [st |-> "none", tries |-> 0, UID |-> HashZero]]

\* go() calls update() while the module loads: the first cycle has set
\* running and is suspended in getStartData; no handler is subscribed yet.
Init ==
  /\ chain = <<>>
  /\ db = EmptyDb
  /\ serviceStat = {}
  /\ running = TRUE
  /\ subscribed = FALSE
  /\ task = [t \in Tasks |->
               IF t = 1 THEN StartTask(latestAttestationBlockNum)
               ELSE IdleTask]
  /\ call = NoCall
  /\ resolutions = NoResolution
  /\ dispatched = {}

\* Variant: update() has no catch: the error leaves update() and go(),
\* running is not reset and no handler is subscribed.
ThrowUncaught(t, e) ==
  /\ task' = [task EXCEPT ![t] = [IdleTask EXCEPT !.pc = "rejected"]]
  /\ UNCHANGED <<running, subscribed>>

\* An error leaves the async function.  In update() the catch logs it and
\* running is reset; go() then subscribes.  In the provider.on handler the
\* promise rejects.
Throw(t, e) ==
  /\ task' = [task EXCEPT ![t] =
                [IdleTask EXCEPT !.pc = IF t \in Pollers THEN "idle" ELSE "rejected"]]
  /\ running' = IF t \in Pollers THEN FALSE ELSE running
  /\ subscribed' = (subscribed \/ t \in Pollers)

\* Variant: the poll starts over instead of returning.
FinishRestart(t) ==
  /\ task' = [task EXCEPT ![t] =
                IF t \in Pollers THEN StartTask(latestAttestationBlockNum)
                ELSE IdleTask]
  /\ UNCHANGED <<running, subscribed>>

\* Normal end of update() or of the handler.
Finish(t) ==
  /\ task' = [task EXCEPT ![t] = IdleTask]
  /\ running' = IF t \in Pollers THEN FALSE ELSE running
  /\ subscribed' = (subscribed \/ t \in Pollers)

\* ------------------------------------------------------------- environment
Attested(ch, uid) ==
  \E i \in 1..Len(ch) : ch[i].sig = attestedEventSignature /\ ch[i].uid = uid
Revoked(ch, uid) ==
  \E i \in 1..Len(ch) : ch[i].sig = revokedEventSignature /\ ch[i].uid = uid

NewLog(ch, sig, uid) ==
  [address |-> EASContractAddress, sig |-> sig, schema |-> Ledger[uid].schemaId,
   uid |-> uid, blockNumber |-> CONTRACT_START_BLOCK + Len(ch) + 1]

\* The chain mines a block holding one EAS event: an attestation (its
\* refUID already attested) or the revocation of an attested one.
Emit(U) ==
  /\ Len(chain) < MaxChain
  /\ \E uid \in U, sig \in {attestedEventSignature, revokedEventSignature} :
       /\ IF sig = attestedEventSignature
            THEN /\ ~Attested(chain, uid)
                 /\ Ledger[uid].refUID = HashZero \/ Attested(chain, Ledger[uid].refUID)
            ELSE Attested(chain, uid) /\ ~Revoked(chain, uid)
       /\ chain' = Append(chain, NewLog(chain, sig, uid))
  /\ UNCHANGED <<db, serviceStat, running, subscribed, task, call,
               resolutions, dispatched>>

\* ------------------------------------------------------------------ update
\* Variant: the guard never fires.
NeverRunning(r) == FALSE

\* if (running) return;
AlreadyRunning(r) == r

\* A call of update(): a no-op while a cycle is in flight, else the cycle
\* starts with the creation stream.  Invocations are anonymous, so a call
\* takes the first free slot.
Update(t) ==
  /\ t \in Pollers
  /\ task[t].pc = "idle"
  /\ \A u \in Pollers : u < t => task[u].pc # "idle"
  /\ IF AlreadyRunning(running)
       THEN /\ task' = [task EXCEPT ![t] = [IdleTask EXCEPT !.skipped = TRUE]]
            /\ UNCHANGED running
       ELSE /\ task' = [task EXCEPT ![t] = StartTask(latestAttestationBlockNum)]
            /\ running' = TRUE
  /\ UNCHANGED <<chain, db, serviceStat, subscribed, call, resolutions,
               dispatched>>

\* await getStartData(serviceStatPropertyName)
GetStartData(t) ==
  /\ task[t].pc = "start"
  /\ LET sd == getStartData(serviceStat, task[t].stream)
     IN task' = [task EXCEPT ![t].pc = "getLogs",
                             ![t].rowFound = sd.latestBlockNumServiceStat,
                             ![t].fromBlock = sd.fromBlock]
  /\ UNCHANGED <<chain, db, serviceStat, running, subscribed, call,
               resolutions, dispatched>>

\* await provider.getLogs(...); an empty batch goes straight to the
\* checkpoint write.
GetLogs(t) ==
  /\ task[t].pc = "getLogs"
  /\ LET logs == getLogs(chain, task[t].stream, task[t].fromBlock)
     IN task' = [task EXCEPT
                   ![t].logs = logs,
                   ![t].idx = 1,
                   ![t].pc = IF Len(logs) = 0 THEN "write"
                             ELSE IF task[t].stream = latestAttestationBlockNum
                                    THEN "resolve" ELSE "revoke"]
  /\ UNCHANGED <<chain, db, serviceStat, running, subscribed, call,
               resolutions, dispatched>>

\* One getFormattedAttestationFromLog of the batch returns; the call that
\* completes Promise.all moves on to the dispatch loop.
ResolveOne(t) ==
  /\ task[t].pc = "resolve"
  /\ \E i \in 1..Len(task[t].logs) :
       /\ \A k \in 1..Len(task[t].order) : task[t].order[k] # i
       /\ LET o == Append(task[t].order, i)
          IN task' = [task EXCEPT
                        ![t].order = o,
                        ![t].pc = IF Len(o) = Len(task[t].logs)
                                    THEN "dispatch" ELSE "resolve",
                        ![t].idx = 1,
                        ![t].l = PCAStart]
  /\ UNCHANGED <<chain, db, serviceStat, running, subscribed, call,
               resolutions, dispatched>>

\* Variant: attestations are applied in the order their resolutions finished.
CompletionOrder(logs, order) == order

\* Promise.all keeps the order of the promises: attestations[k] belongs to
\* logs[k], whichever resolution finished first.
DispatchOrder(logs, order) == [k \in 1..Len(logs) |-> k]

\* Variant: the loop over the batch ends after its first element.
FirstDone(idx, logs) == TRUE

\* for (... of ...): the element just handled was the last of the batch.
BatchDone(idx, logs) == idx = Len(logs)

\* One database call of the processCreatedAttestation the loop is awaiting.
Dispatch(t) ==
  /\ task[t].pc = "dispatch"
  /\ LET k == DispatchOrder(task[t].logs, task[t].order)[task[t].idx]
         r == PCAStep(db, Attestation(task[t].logs[k].uid), task[t].l)
     IN IF r.err # "none"
          THEN /\ db' = r.db
               /\ Throw(t, r.err)
          ELSE /\ db' = r.db
               /\ task' = [task EXCEPT
                    ![t].l = IF r.l.sub = "done" THEN PCAStart ELSE r.l,
                    ![t].idx = IF r.l.sub = "done" THEN @ + 1 ELSE @,
                    ![t].pc = IF r.l.sub = "done"
                                   /\ BatchDone(task[t].idx, task[t].logs)
                                THEN "write" ELSE "dispatch"]
               /\ UNCHANGED <<running, subscribed>>
  /\ dispatched' = dispatched \cup
       {<<attestedEventSignature,
          task[t].logs[DispatchOrder(task[t].logs, task[t].order)[task[t].idx]].uid>>}
  /\ UNCHANGED <<chain, serviceStat, call, resolutions>>

\* One iteration of revokeAttestationsFromLogs: the upstream answer and the
\* updateMany it selects.
Revoke(t) ==
  /\ task[t].pc = "revoke"
  /\ \E rt \in RevTimes :
       LET r == RevokeOne(db, RevAnswer(task[t].logs[task[t].idx].uid, rt))
       IN /\ db' = r.db
          /\ IF r.err # "none" THEN Throw(t, r.err)
             ELSE /\ task' = [task EXCEPT
                               ![t].idx = @ + 1,
                               ![t].pc = IF BatchDone(task[t].idx, task[t].logs)
                                           THEN "write" ELSE "revoke"]
                  /\ UNCHANGED <<running, subscribed>>
  /\ dispatched' = dispatched \cup
       {<<revokedEventSignature, task[t].logs[task[t].idx].uid>>}
  /\ UNCHANGED <<chain, serviceStat, call, resolutions>>

\* await updateServiceStatToLastBlock(...): the poll passes
\* !latestBlockNumServiceStat and the last block of its batch, the live
\* handler passes false and log.blockNumber.
Write(t) ==
  /\ task[t].pc = "write"
  /\ LET r == IF t \in Pollers
                THEN updateServiceStatToLastBlock(serviceStat, ~task[t].rowFound,
                       task[t].stream, getLastBlockNumberFromLog(task[t].logs))
                ELSE updateServiceStatToLastBlock(serviceStat, FALSE,
                       task[t].stream, task[t].logs[1].blockNumber)
     IN /\ serviceStat' = r.stat
        /\ IF r.err # "none" THEN Throw(t, r.err)
           ELSE IF t \in Pollers /\ task[t].stream = latestAttestationBlockNum
             THEN /\ task' = [task EXCEPT
                               ![t] = StartTask(latestAttestationRevocationBlockNum)]
                  /\ UNCHANGED <<running, subscribed>>
           ELSE Finish(t)
  /\ UNCHANGED <<chain, db, call, resolutions, dispatched>>

\* provider.getLogs or easContract.getAttestation rejects.
UpstreamFail(t) ==
  /\ task[t].pc \in {"getLogs", "resolve", "revoke"}
  /\ Throw(t, "upstream")
  /\ UNCHANGED <<chain, db, serviceStat, call, resolutions, dispatched>>

\* Variant: the schema topic of the log is not tested.
RouteAnySchema(log) ==
  IF log.address = EASContractAddress /\ log.sig = attestedEventSignature
    THEN [StartTask(latestAttestationBlockNum) EXCEPT
            !.pc = "resolve", !.logs = <<log>>, !.idx = 1]
  ELSE IF log.address = EASContractAddress /\ log.sig = revokedEventSignature
    THEN [StartTask(latestAttestationRevocationBlockNum) EXCEPT
            !.pc = "revoke", !.logs = <<log>>, !.idx = 1]
  ELSE [IdleTask EXCEPT !.skipped = TRUE, !.logs = <<log>>]

\* The tests of updateDbFromRelevantLog up to its first await: the handler
\* it becomes for log.  A log that passes neither test makes the function
\* return at once (the idle task keeps the log it returned on).
Route(log) ==
  IF log.address = EASContractAddress
     /\ log.sig = attestedEventSignature /\ log.schema \in AttestedSchemas
    THEN [StartTask(latestAttestationBlockNum) EXCEPT
            !.pc = "resolve", !.logs = <<log>>, !.idx = 1]
  ELSE IF log.address = EASContractAddress
     /\ log.sig = revokedEventSignature /\ log.schema \in RevokedSchemas
    THEN [StartTask(latestAttestationRevocationBlockNum) EXCEPT
            !.pc = "revoke", !.logs = <<log>>, !.idx = 1]
  ELSE [IdleTask EXCEPT !.skipped = TRUE, !.logs = <<log>>]

\* The subscription delivers a log of the chain (in any order, possibly more
\* than once) and updateDbFromRelevantLog routes it.
Deliver(t) ==
  /\ t \in Lives
  /\ subscribed
  /\ task[t].pc \in {"idle", "rejected"}
  /\ \A u \in Lives : u < t => task[u].pc \notin {"idle", "rejected"}
  /\ \E i \in 1..Len(chain) : task' = [task EXCEPT ![t] = Route(chain[i])]
  /\ UNCHANGED <<chain, db, serviceStat, running, subscribed, call,
               resolutions, dispatched>>

Next ==
  \/ Emit(1..MaxLiveUID)
  \/ \E t \in Pollers : Update(t)
  \/ \E t \in Tasks : GetStartData(t)
  \/ \E t \in Tasks : GetLogs(t)
  \/ \E t \in Tasks : ResolveOne(t)
  \/ \E t \in Tasks : Dispatch(t)
  \/ \E t \in Tasks : Revoke(t)
  \/ \E t \in Tasks : Write(t)
  \/ \E t \in Tasks : UpstreamFail(t)
  \/ \E t \in Lives : Deliver(t)

Spec == Init /\ [][Next]_vars

\* Poll cycles alone: no handler is ever subscribed, the chain emits every
\* kind of attestation.
NextPoll ==
  \/ Emit(UIDs)
  \/ \E t \in Pollers : Update(t)
  \/ \E t \in Pollers : GetStartData(t)
  \/ \E t \in Pollers : GetLogs(t)
  \/ \E t \in Pollers : ResolveOne(t)
  \/ \E t \in Pollers : Dispatch(t)
  \/ \E t \in Pollers : Revoke(t)
  \/ \E t \in Pollers : Write(t)
  \/ \E t \in Pollers : UpstreamFail(t)

SpecPoll == Init /\ [][NextPoll]_vars

\* The steps of the poll cycle of invocation t.  Each is the continuation of
\* an await: once the awaited call has returned, the event loop runs it.
CycleStep(t) ==
  \/ GetStartData(t)
  \/ GetLogs(t)
  \/ ResolveOne(t)
  \/ Dispatch(t)
  \/ Revoke(t)
  \/ Write(t)

\* Poll cycles over a chain of the first MaxLiveUID attestations, where every
\* awaited call returns (or rejects, UpstreamFail) and its continuation runs.
NextCycle ==
  \/ Emit(1..MaxLiveUID)
  \/ \E t \in Pollers : Update(t)
  \/ \E t \in Pollers : GetStartData(t)
  \/ \E t \in Pollers : GetLogs(t)
  \/ \E t \in Pollers : ResolveOne(t)
  \/ \E t \in Pollers : Dispatch(t)
  \/ \E t \in Pollers : Revoke(t)
  \/ \E t \in Pollers : Write(t)
  \/ \E t \in Pollers : UpstreamFail(t)

SpecCycleFair ==
  /\ Init
  /\ [][NextCycle]_vars
  /\ \A t \in Pollers : WF_vars(CycleStep(t))

\* ---------------------------------------------------- the handler alone
\* The logs updateDbFromRelevantLog may be called with: the subscription
\* filters on the first topic only, so the address and the schema topic are
\* arbitrary, and the function is exported, so is the first topic.
PushedUIDs == {1, 8, 9}
PushedLogs ==
  {[address |-> a, sig |-> sg, schema |-> Ledger[u].schemaId, uid |-> u,
    blockNumber |-> IF sg = attestedEventSignature
                      THEN CONTRACT_START_BLOCK + 1 ELSE CONTRACT_START_BLOCK + 2] :
     a \in {EASContractAddress, "notEAS"},
     sg \in {attestedEventSignature, revokedEventSignature, "Transfer"},
     u \in PushedUIDs}

\* The state go() subscribes in when the first cycle found no event: both
\* checkpoint rows were created with "0".
InitLive ==
  /\ chain = <<>>
  /\ db = EmptyDb
  /\ serviceStat = {[name |-> n, value |-> toString(0)] : n \in StatNames}
  /\ running = FALSE
  /\ subscribed = TRUE
  /\ task = [t \in Tasks |-> IdleTask]
  /\ call = NoCall
  /\ resolutions = NoResolution
  /\ dispatched = {}

\* provider.on(filter, log => updateDbFromRelevantLog(log)) with a pushed log.
DeliverPushed(t) ==
  /\ t \in Lives
  /\ subscribed
  /\ task[t].pc \in {"idle", "rejected"}
  /\ \A u \in Lives : u < t => task[u].pc \notin {"idle", "rejected"}
  /\ \E log \in PushedLogs : task' = [task EXCEPT ![t] = Route(log)]
  /\ UNCHANGED <<chain, db, serviceStat, running, subscribed, call,
               resolutions, dispatched>>

NextLive ==
  \/ \E t \in Lives : DeliverPushed(t)
  \/ \E t \in Lives : ResolveOne(t)
  \/ \E t \in Lives : Dispatch(t)
  \/ \E t \in Lives : Revoke(t)
  \/ \E t \in Lives : Write(t)
  \/ \E t \in Lives : UpstreamFail(t)

SpecLive == InitLive /\ [][NextLive]_vars

\* ------------------------------------------------ direct sequential calls
\* The exported projection functions called one after the other on resolved
\* attestations, each call running to its end before the next starts.
InitSeq ==
  /\ chain = <<>>
  /\ db = EmptyDb
  /\ serviceStat = {}
  /\ running = FALSE
  /\ subscribed = FALSE
  /\ task = [t \in Tasks |-> IdleTask]
  /\ call = NoCall
  /\ resolutions = NoResolution
  /\ dispatched = {}

HasEntity(d, u) == Has(d.posts, u) \/ Has(d.likes, u) \/ Has(d.follows, u)

\* The table revokeAttestationsFromLogs selects for attestation u.
TableOf(d, u) ==
  IF Ledger[u].schemaId = makePostUID THEN d.posts
  ELSE IF Ledger[u].schemaId = likeUID THEN d.likes
  ELSE IF Ledger[u].schemaId = followUID THEN d.follows
  ELSE {}

\* await processCreatedAttestation(attestation).  call tells whether the
\* attestation had been applied before (its entity row was already there)
\* or is of a schema outside schemasToProcess.
CallCreated(uid) ==
  /\ LET r == processCreatedAttestation(db, Attestation(uid))
     IN /\ db' = r.db
        /\ call' = IF r.err # "none" THEN "error"
                   ELSE IF HasEntity(db, uid) THEN "createdAgain"
                   ELSE IF Ledger[uid].schemaId \notin schemasToProcess
                     THEN "ignored"
                   ELSE "created"
  /\ UNCHANGED <<chain, serviceStat, running, subscribed, task,
               resolutions, dispatched>>

\* await revokeAttestationsFromLogs([log]) with upstream answer (uid, rt).
\* call tells whether the row had been revoked before at another time.
CallRevoke(uid, rt) ==
  /\ LET r == revokeAttestationsFromLogs(db, <<RevAnswer(uid, rt)>>)
     IN /\ db' = r.db
        /\ call' = IF r.err # "none" THEN "error"
                   ELSE IF /\ Has(TableOf(db, uid), uid)
                           /\ Row(TableOf(db, uid), uid).revokedAt \notin {0, rt}
                     THEN "revokedAgain"
                   ELSE "revoked"
  /\ UNCHANGED <<chain, serviceStat, running, subscribed, task,
               resolutions, dispatched>>

NextSeq ==
  \/ \E uid \in UIDs : CallCreated(uid)
  \/ \E uid \in UIDs, rt \in RevTimes : CallRevoke(uid, rt)

SpecSeq == InitSeq /\ [][NextSeq]_vars

\* -------------------------------------- the fan-out of parseAttestationLogs
\* Every parseAttestationLogs, of a poll cycle or of a live handler, maps its
\* logs through the one module-level limit.  The calls of
\* getFormattedAttestationFromLog differ only in their position, so
\* resolutions counts them: queued in p-limit, active per position (the await
\* the call is suspended at and its tries), and the last one that settled.

RECURSIVE SumOver(_, _)
SumOver(f, S) ==
  IF S = {} THEN 0
  ELSE LET x == CHOOSE y \in S : TRUE IN f[x] + SumOver(f, S \ {x})

\* p-limit's activeCount: the functions started and not yet settled.
activeCount(res) == SumOver(res.active, ActiveKinds)

\* Variant: no ceiling.
Unlimited(n) == TRUE

\* p-limit starts a queued function only below the ceiling of pLimit(5).
BelowLimit(n) == n < Concurrency

\* logs.map((log) => limit(() => getFormattedAttestationFromLog(log))) for a
\* batch of k logs: k functions join the queue.
Submit(k) ==
  /\ resolutions.made + k <= MaxCalls
  /\ resolutions' = [resolutions EXCEPT !.queued = @ + k, !.made = @ + k]
  /\ UNCHANGED <<chain, db, serviceStat, running, subscribed, task, call,
               dispatched>>

\* res after p-limit dequeues and starts the head of the queue, if the
\* ceiling allows: getFormattedAttestationFromLog runs up to its first await
\* with tries = 1.
StartNext(res) ==
  IF BelowLimit(activeCount(res)) /\ res.queued > 0
    THEN [res EXCEPT !.queued = @ - 1, !.active[<<"polling", 1>>] = @ + 1]
    ELSE res

\* The microtask p-limit schedules after an enqueue.
Start ==
  /\ StartNext(resolutions) # resolutions
  /\ resolutions' = StartNext(resolutions)
  /\ UNCHANGED <<chain, db, serviceStat, running, subscribed, task, call,
               dispatched>>

\* Variant: the loop ends after the first answer.
OneTry(uid) == FALSE

\* while (UID === ethers.constants.HashZero)
KeepPolling(uid) == uid = HashZero

\* tries++; the model stops counting at MaxTries (the value is only logged).
NextTries(n) == IF n < MaxTries THEN n + 1 ELSE n

\* await easContract.getAttestation(log.data) of a call with tries = n
\* answers: with the zero id (not visible yet) the call goes on to
\* await timeout(500); with the attestation it returns the record, and
\* p-limit starts the next queued function.
Attempt(n) ==
  /\ resolutions.active[<<"polling", n>>] > 0
  /\ \E uid \in UpstreamIds :
       resolutions' =
         IF KeepPolling(uid)
           THEN [resolutions EXCEPT !.active[<<"polling", n>>] = @ - 1,
                                    !.active[<<"delaying", n>>] = @ + 1]
           ELSE StartNext([resolutions EXCEPT
                             !.active[<<"polling", n>>] = @ - 1,
                             !.last = [st |-> "returned", tries |-> NextTries(n),
                                       UID |-> uid]])
  /\ UNCHANGED <<chain, db, serviceStat, running, subscribed, task, call,
               dispatched>>

\* timeout(500) fires: tries++ and the loop asks again.
Wake(n) ==
  /\ resolutions.active[<<"delaying", n>>] > 0
  /\ resolutions' = [resolutions EXCEPT
                       !.active[<<"delaying", n>>] = @ - 1,
                       !.active[<<"polling", NextTries(n)>>] = @ + 1]
  /\ UNCHANGED <<chain, db, serviceStat, running, subscribed, task, call,
               dispatched>>

\* easContract.getAttestation rejects: the call fails and frees its slot.
Reject(n) ==
  /\ resolutions.active[<<"polling", n>>] > 0
  /\ resolutions' = StartNext([resolutions EXCEPT
                                 !.active[<<"polling", n>>] = @ - 1,
                                 !.last = [st |-> "failed", tries |-> n,
                                           UID |-> HashZero]])
  /\ UNCHANGED <<chain, db, serviceStat, running, subscribed, task, call,
               dispatched>>

NextResolve ==
  \/ \E k \in 1..MaxCalls : Submit(k)
  \/ Start
  \/ \E n \in 1..MaxTries : Attempt(n)
  \/ \E n \in 1..MaxTries : Wake(n)
  \/ \E n \in 1..MaxTries : Reject(n)

SpecResolve == InitSeq /\ [][NextResolve]_vars

\* The event loop runs every ready continuation, every timer fires and the
\* upstream node answers every request.
SpecResolveFair ==
  /\ SpecResolve
  /\ WF_vars(Start)
  /\ WF_vars(\E n \in 1..MaxTries : Attempt(n) \/ Reject(n))
  /\ WF_vars(\E n \in 1..MaxTries : Wake(n))

TypeOK ==
  /\ running \in BOOLEAN
  /\ subscribed \in BOOLEAN
  /\ Len(chain) <= MaxChain

\* ============================================================== properties
NonDecreasing ==
  \A n \in StatNames : StatVal(serviceStat', n) >= StatVal(serviceStat, n)

\* The step is the checkpoint write of task t.
WriteStep(t) == task[t].pc = "write" /\ task'[t].pc # "write"

\* C1: with poll cycles only (no live-tail handler), no step lowers the
\* stored checkpoint of a stream, whether the batch of the cycle is empty or
\* not; a missing row counts as below every value.
C1_PollMonotone == [][NonDecreasing]_vars

\* A later cycle is about to write for a stream whose checkpoint an earlier
\* cycle advanced, and its own batch is empty.
C1_Witness ==
  \E t \in Pollers :
    /\ task[t].pc = "write"
    /\ task[t].logs = <<>>
    /\ task[t].rowFound
    /\ task[t].fromBlock > CONTRACT_START_BLOCK
    /\ StatVal(serviceStat, task[t].stream) = task[t].fromBlock

\* C2: the checkpoint write of a live-tail handler never lowers a stored
\* checkpoint, whatever log was delivered.
C2_LiveNeverLowers ==
  [][\A t \in Lives : WriteStep(t) => NonDecreasing]_vars

\* C3: the final checkpoint write of a poll cycle never replaces a larger
\* value written by a live-tail handler while the cycle was in flight.
C3_PollWriteNeverLowers ==
  [][\A t \in Pollers : WriteStep(t) => NonDecreasing]_vars

\* C4: the checkpoint write of a poll cycle whose batch is empty leaves the
\* ServiceStat table as it was: no row changes and no row is created.
C4_EmptyBatchLeavesStore ==
  [][\A t \in Pollers :
       (WriteStep(t) /\ task[t].logs = <<>>) => serviceStat' = serviceStat]_vars

\* C5: at most one invocation of update() is inside the cycle at any time,
\* and a call made while running is set returns at once: it changes no log,
\* no row, no checkpoint, no flag and no other invocation.
C5_SingleCycle ==
  /\ [](Cardinality({t \in Pollers : task[t].pc # "idle"}) <= 1)
  /\ [][\A t \in Pollers :
          (running /\ task[t].pc = "idle" /\ task'[t] # task[t]) =>
            /\ task'[t] = [IdleTask EXCEPT !.skipped = TRUE]
            /\ \A u \in Tasks \ {t} : task'[u] = task[u]
            /\ UNCHANGED <<chain, db, serviceStat, running, subscribed>>]_vars

\* A cycle is in flight and another call of update() has returned early.
C5_Witness ==
  \E t, u \in Pollers :
    /\ t # u
    /\ running
    /\ task[t].pc \notin {"idle"}
    /\ task[u].skipped

KnownUIDs == {u \in UIDs : Ledger[u].schemaId \in schemasToProcess}

\* No table of read model d holds two rows with the same id.
UniqueIds(d) ==
  \A tbl \in {d.users, d.posts, d.likes, d.follows} :
    \A r, q \in tbl : r.id = q.id => r = q

\* C6: on every read model and for every attestation of a known schema, a
\* second processCreatedAttestation with the same attestation raises nothing
\* and leaves the User, Post, Like and Follow rows exactly as the first call
\* left them, with one row per id.
C6_Idempotent ==
  \A u \in KnownUIDs :
    LET r1 == processCreatedAttestation(db, Attestation(u))
        r2 == processCreatedAttestation(r1.db, Attestation(u))
    IN /\ r1.err = "none"
       /\ r2.err = "none"
       /\ r2.db = r1.db
       /\ UniqueIds(r2.db)

\* An attestation whose row was already in the read model has just been
\* applied again.
C6_Witness == call = "createdAgain"

\* C7: a handler that is dispatching creation events always reaches its
\* checkpoint write: no database call of processCreatedAttestation ends the
\* poll cycle or the live-tail handler with an error.
C7_DispatchNeverAborts ==
  [][\A t \in Tasks :
       task[t].pc = "dispatch" => task'[t].pc \in {"dispatch", "write"}]_vars

\* A post log at position i and a like log referencing that post at a later
\* position j of the batch.
PostThenLike(logs, i, j) ==
  /\ i < j
  /\ logs[i].schema = makePostUID
  /\ logs[j].schema = likeUID
  /\ Ledger[logs[j].uid].refUID = logs[i].uid

\* C8 as stated: once parseAttestationLogs has dispatched a batch holding a
\* post log and, after it, a like log referencing the post, both rows exist.
C8_PostThenLikeBothExist ==
  \A t \in Pollers :
    (task[t].pc = "write" /\ task[t].stream = latestAttestationBlockNum) =>
      \A i, j \in 1..Len(task[t].logs) :
        PostThenLike(task[t].logs, i, j) =>
          /\ Has(db.posts, task[t].logs[i].uid)
          /\ Has(db.likes, task[t].logs[j].uid)

\* C8 amended: the same, for a post whose payload decodes as a string.
C8_DecodablePostThenLike ==
  \A t \in Pollers :
    (task[t].pc = "write" /\ task[t].stream = latestAttestationBlockNum) =>
      \A i, j \in 1..Len(task[t].logs) :
        (PostThenLike(task[t].logs, i, j) /\ Ledger[task[t].logs[i].uid].dataOk) =>
          /\ Has(db.posts, task[t].logs[i].uid)
          /\ Has(db.likes, task[t].logs[j].uid)

\* A batch with a decodable post and its like has been dispatched, the
\* resolution of the like having finished before that of the post.
C8_Witness ==
  \E t \in Pollers :
    /\ task[t].pc = "write"
    /\ task[t].stream = latestAttestationBlockNum
    /\ \E i, j \in 1..Len(task[t].logs) :
         /\ PostThenLike(task[t].logs, i, j)
         /\ Ledger[task[t].logs[i].uid].dataOk
         /\ \E a, b \in 1..Len(task[t].order) :
              a < b /\ task[t].order[a] = j /\ task[t].order[b] = i
         /\ Has(db.posts, task[t].logs[i].uid)
         /\ Has(db.likes, task[t].logs[j].uid)

\* The like half of C9: a like whose post is absent raises nothing and
\* creates no Like row.
LikeOfAbsentPost(u) ==
  (Ledger[u].schemaId = likeUID /\ ~Has(db.posts, Ledger[u].refUID)) =>
    LET r == processCreatedAttestation(db, Attestation(u))
    IN /\ r.err = "none"
       /\ r.db.likes = db.likes
       /\ ~Has(r.db.likes, u)

\* The post half of C9: the Post row exists after the call, parentId null.
DanglingPostCreated(u) ==
  LET r == processCreatedAttestation(db, Attestation(u))
  IN /\ r.err = "none"
     /\ Has(r.db.posts, u)
     /\ Row(r.db.posts, u).parentId = HashZero

DanglingPost(u) ==
  /\ Ledger[u].schemaId = makePostUID
  /\ Ledger[u].refUID # HashZero
  /\ ~Has(db.posts, Ledger[u].refUID)

\* The step is a direct call of processCreatedAttestation on attestation u.
CreatedStep(u) ==
  /\ call' \in {"created", "createdAgain", "ignored"}
  /\ db' = processCreatedAttestation(db, Attestation(u)).db

\* C9 as stated: a like of an absent post raises nothing and creates no
\* Like row; a post whose non-zero refUID matches no local post is created
\* with parentId null.
C9_DanglingRefs ==
  [][\A u \in UIDs :
       CreatedStep(u) =>
         /\ LikeOfAbsentPost(u)
         /\ DanglingPost(u) => DanglingPostCreated(u)]_vars

\* C9 amended: the post half holds for a post whose payload decodes.
C9_DanglingRefsDecodable ==
  \A u \in UIDs :
    /\ LikeOfAbsentPost(u)
    /\ (DanglingPost(u) /\ Ledger[u].dataOk) => DanglingPostCreated(u)

\* A decodable post with a dangling refUID has been applied: its row is
\* there with parentId null and the referenced post is still absent.
C9_Witness ==
  \E u \in UIDs :
    /\ DanglingPost(u)
    /\ Ledger[u].dataOk
    /\ Has(db.posts, u)
    /\ Row(db.posts, u).parentId = HashZero

\* C10: revoking an id that has no Post, Like or Follow row changes nothing
\* and raises nothing; revoking a row at t1 and then at t2 raises nothing
\* and leaves revokedAt = t2.
C10_RevokeLastWriteWins ==
  \A u \in UIDs, t1, t2 \in RevTimes :
    LET r1 == revokeAttestationsFromLogs(db, <<RevAnswer(u, t1)>>)
        r2 == revokeAttestationsFromLogs(r1.db, <<RevAnswer(u, t2)>>)
    IN /\ r1.err = "none"
       /\ r2.err = "none"
       /\ ~HasEntity(db, u) => r1.db = db
       /\ Has(TableOf(db, u), u) =>
            /\ Row(TableOf(r1.db, u), u).revokedAt = t1
            /\ Row(TableOf(r2.db, u), u).revokedAt = t2

\* A row revoked at one time has just been revoked again at another.
C10_Witness == call = "revokedAgain"

\* C11: in a revocation poll cycle, the revocation of an id that has no
\* Post, Like or Follow row raises nothing and changes no row, and the write
\* that ends the cycle raises nothing and stores the block of the last log
\* of the batch, which no log of the batch exceeds.
C11_RevokeMissingAdvances ==
  \A t \in Pollers :
    /\ (task[t].pc = "revoke"
        /\ ~Has(TableOf(db, task[t].logs[task[t].idx].uid),
                task[t].logs[task[t].idx].uid)) =>
         \A rt \in RevTimes :
           RevokeOne(db, RevAnswer(task[t].logs[task[t].idx].uid, rt))
             = [db |-> db, err |-> "none"]
    /\ (task[t].pc = "write"
        /\ task[t].stream = latestAttestationRevocationBlockNum
        /\ task[t].logs # <<>>) =>
         LET w == updateServiceStatToLastBlock(serviceStat, ~task[t].rowFound,
                    task[t].stream, getLastBlockNumberFromLog(task[t].logs))
         IN /\ w.err = "none"
            /\ \A i \in 1..Len(task[t].logs) :
                 StatVal(w.stat, task[t].stream) >= task[t].logs[i].blockNumber
            /\ \E i \in 1..Len(task[t].logs) :
                 StatVal(w.stat, task[t].stream) = task[t].logs[i].blockNumber

\* The revocation checkpoint stands at the block of a revocation log whose
\* id has no row in the read model.
C11_Witness ==
  \E i \in 1..Len(chain) :
    /\ chain[i].sig = revokedEventSignature
    /\ ~Has(TableOf(db, chain[i].uid), chain[i].uid)
    /\ StatVal(serviceStat, latestAttestationRevocationBlockNum)
         = chain[i].blockNumber

\* Poll cycle t has fetched a batch of exactly one post-creation log from an
\* attester that has no User row, and is about to dispatch it.
OnePostBatch(t) ==
  /\ task[t].pc = "dispatch"
  /\ task[t].stream = latestAttestationBlockNum
  /\ Len(task[t].logs) = 1
  /\ task[t].l = PCAStart
  /\ task[t].logs[1].schema = makePostUID
  /\ ~Has(db.users, Ledger[task[t].logs[1].uid].attester)

\* The end state of that cycle: the only new User row is the attester with
\* the empty name, the only new Post row is the post with revokedAt = 0, no
\* other row changes, and the creation checkpoint is the block of the log.
OnePostOutcome(t) ==
  LET att == Attestation(task[t].logs[1].uid)
      r == processCreatedAttestation(db, att)
      w == updateServiceStatToLastBlock(serviceStat, ~task[t].rowFound,
             task[t].stream, getLastBlockNumberFromLog(task[t].logs))
  IN /\ r.err = "none"
     /\ db.users \subseteq r.db.users
     /\ Cardinality(r.db.users \ db.users) = 1
     /\ \A q \in r.db.users \ db.users : q.id = att.attester /\ q.name = ""
     /\ db.posts \subseteq r.db.posts
     /\ Cardinality(r.db.posts \ db.posts) = 1
     /\ \A q \in r.db.posts \ db.posts : q.id = att.id /\ q.revokedAt = 0
     /\ r.db.likes = db.likes
     /\ r.db.follows = db.follows
     /\ w.err = "none"
     /\ StatVal(w.stat, task[t].stream) = task[t].logs[1].blockNumber

\* C12 as stated: a creation poll cycle whose batch is one post-creation log
\* at block B from an attester with no User row ends with exactly one new
\* User row (the attester, empty name), exactly one new Post row with
\* revokedAt = 0, and the creation checkpoint equal to B.
C12_OnePostOneUser ==
  \A t \in Pollers : OnePostBatch(t) => OnePostOutcome(t)

\* C12 amended: the same, for a post whose payload decodes as a string and
\* whose recipient is the attester or already has a User row.
C12_OnePostOneUserDecodable ==
  \A t \in Pollers :
    (/\ OnePostBatch(t)
     /\ Ledger[task[t].logs[1].uid].dataOk
     /\ \/ Ledger[task[t].logs[1].uid].recipient
             = Ledger[task[t].logs[1].uid].attester
        \/ Has(db.users, Ledger[task[t].logs[1].uid].recipient))
      => OnePostOutcome(t)

\* Such a cycle has run to its end: the batch was the only log so far, the
\* attester is the only user, the post is the only post, and the creation
\* checkpoint is the block of the log.
C12_Witness ==
  /\ Len(chain) = 1
  /\ chain[1].schema = makePostUID
  /\ Ledger[chain[1].uid].dataOk
  /\ \A t \in Pollers : task[t].pc = "idle"
  /\ db.users = {[id |-> Ledger[chain[1].uid].attester, name |-> "",
                  createdAt |-> Ledger[chain[1].uid].time]}
  /\ \E q \in db.posts : db.posts = {q} /\ q.id = chain[1].uid /\ q.revokedAt = 0
  /\ StatVal(serviceStat, latestAttestationBlockNum) = chain[1].blockNumber

\* C13: every record getFormattedAttestationFromLog returns has an id other
\* than the zero hash, whatever zero-id answers came first.
C13_ReturnedIdNonZero ==
  resolutions.last.st = "returned" => resolutions.last.UID # HashZero

\* A call has returned after a zero-id answer and a second request.
C13_Witness ==
  /\ resolutions.last.st = "returned"
  /\ resolutions.last.tries > 2

\* C14: no call of getFormattedAttestationFromLog polls forever: each one
\* returns, or fails after a bounded number of zero-id answers, so that in
\* the end no call is in flight.
C14_ResolutionStops == <>[](activeCount(resolutions) = 0)

\* C19: at most 5 calls of getFormattedAttestationFromLog are in flight at
\* any moment, over all the batches submitted by poll cycles and handlers.
C19_AtMostFiveInFlight == activeCount(resolutions) <= 5

\* Five calls are in flight and a sixth is waiting in the queue.
C19_Witness ==
  /\ activeCount(resolutions) = 5
  /\ resolutions.queued > 0

\* C15: a failure local to one attestation never aborts the batch: a poll
\* cycle that has fetched a non-empty creation batch goes on, through the
\* resolutions and the dispatch loop, to its checkpoint write.
C15_BatchNeverAborts ==
  [][\A t \in Pollers :
       task[t].pc \in {"resolve", "dispatch"} =>
         task'[t].pc \in {"resolve", "dispatch", "write"}]_vars

\* Log lg belongs to stream n: the topics filter of the poll and the test of
\* updateDbFromRelevantLog.
InStream(lg, n) ==
  /\ lg.address = EASContractAddress
  /\ lg.sig = StreamSig(n)
  /\ lg.schema \in StreamSchemas(n)

\* C16: every event of a stream emitted after the contract start block and
\* at or below the stored checkpoint of the stream has been dispatched to
\* the projection function of the stream.
C16_CheckpointCovered ==
  \A n \in StatNames : \A i \in 1..Len(chain) :
    (/\ InStream(chain[i], n)
     /\ chain[i].blockNumber > CONTRACT_START_BLOCK
     /\ chain[i].blockNumber <= StatVal(serviceStat, n)) =>
      <<chain[i].sig, chain[i].uid>> \in dispatched

\* Every log of the batch of task t has been dispatched.
BatchDispatched(t) ==
  \A i \in 1..Len(task[t].logs) :
    <<StreamSig(task[t].stream), task[t].logs[i].uid>> \in dispatched

\* C17: the checkpoint write of a poll cycle comes after the dispatch of
\* every log of its batch, and no other step of a cycle, in particular none
\* that ends it with an error, changes a checkpoint: only the row of the
\* stream changes, and only in the write.
C17_WriteAfterDispatch ==
  [][/\ \A t \in Pollers : WriteStep(t) => BatchDispatched(t)
     /\ serviceStat' # serviceStat =>
          \E t \in Pollers :
            /\ WriteStep(t)
            /\ \A n \in StatNames \ {task[t].stream} :
                 StatVal(serviceStat', n) = StatVal(serviceStat, n)]_vars

\* A cycle has dispatched a batch of two logs and is about to write.
C17_Witness ==
  \E t \in Pollers :
    /\ task[t].pc = "write"
    /\ Len(task[t].logs) >= 2
    /\ BatchDispatched(t)

\* The highest block number among the logs of a batch.
MaxBlock(logs) ==
  CHOOSE b \in {logs[i].blockNumber : i \in 1..Len(logs)} :
    \A i \in 1..Len(logs) : logs[i].blockNumber <= b

\* C18: the checkpoint write of a poll cycle with a non-empty batch leaves
\* a row for the stream whose value is the highest block number among the
\* logs of the batch.
C18_CheckpointIsHighestBlock ==
  [][\A t \in Pollers :
       (WriteStep(t) /\ task[t].logs # <<>>) =>
         /\ HasStat(serviceStat', task[t].stream)
         /\ StatVal(serviceStat', task[t].stream) = MaxBlock(task[t].logs)]_vars

\* Two creation events at different blocks have been dispatched and the
\* creation checkpoint is the block of the later one.
C18_Witness ==
  \E i, j \in 1..Len(chain) :
    /\ i < j
    /\ InStream(chain[i], latestAttestationBlockNum)
    /\ InStream(chain[j], latestAttestationBlockNum)
    /\ <<chain[i].sig, chain[i].uid>> \in dispatched
    /\ <<chain[j].sig, chain[j].uid>> \in dispatched
    /\ StatVal(serviceStat, latestAttestationBlockNum) = chain[j].blockNumber

\* C20: processCreatedAttestation on an attestation whose schema is not one
\* of post, like, follow, username raises nothing and leaves the User, Post,
\* Like and Follow rows as they were.
C20_UnknownSchemaIgnored ==
  \A u \in UIDs \ KnownUIDs :
    processCreatedAttestation(db, Attestation(u)) = [db |-> db, err |-> "none"]

\* An attestation of an unknown schema has just been applied to a read model
\* that lacks its attester or its recipient.
C20_Witness ==
  /\ call = "ignored"
  /\ \E u \in UIDs \ KnownUIDs :
       ~Has(db.users, Ledger[u].attester) \/ ~Has(db.users, Ledger[u].recipient)

\* revokedAt of the row of attestation u in read model d; 0 when d has no
\* such row.
RevokedAtOf(d, u) ==
  IF Has(TableOf(d, u), u) THEN Row(TableOf(d, u), u).revokedAt ELSE 0

\* C21: a revocation dispatched while its attestation has no row changes no
\* row and raises nothing, and it is not remembered: a row is inserted with
\* revokedAt = 0, and revokedAt of a row changes only in a step that
\* dispatches a revocation event of its id.
C21_EarlyRevocationNotReapplied ==
  /\ [](\A t \in Pollers :
          (task[t].pc = "revoke"
           /\ ~Has(TableOf(db, task[t].logs[task[t].idx].uid),
                   task[t].logs[task[t].idx].uid)) =>
            \A rt \in RevTimes :
              /\ RevokeOne(db, RevAnswer(task[t].logs[task[t].idx].uid, rt)).db = db
              /\ RevokeOne(db, RevAnswer(task[t].logs[task[t].idx].uid, rt)).err
                   = "none")
  /\ [][\A u \in UIDs :
          RevokedAtOf(db', u) # RevokedAtOf(db, u) =>
            \E t \in Pollers :
              /\ task[t].pc = "revoke"
              /\ task[t].logs[task[t].idx].uid = u]_vars

\* The revocation of an attestation was dispatched in an earlier cycle, and
\* the cycle now about to write has created its row, with revokedAt = 0.
C21_Witness ==
  \E t \in Pollers :
    /\ task[t].pc = "write"
    /\ task[t].stream = latestAttestationBlockNum
    /\ \E i \in 1..Len(task[t].logs) :
         /\ <<revokedEventSignature, task[t].logs[i].uid>> \in dispatched
         /\ Has(TableOf(db, task[t].logs[i].uid), task[t].logs[i].uid)
         /\ RevokedAtOf(db, task[t].logs[i].uid) = 0

\* Poller t completes one iteration of revokeAttestationsFromLogs, on the
\* revocation event of attestation u.
RevokeStep(t, u) ==
  /\ task[t].pc = "revoke"
  /\ task[t].logs[task[t].idx].uid = u
  /\ task'[t].pc \in {"revoke", "write"}
  /\ task'[t].idx = task[t].idx + 1

\* Table tbl after the step equals tbl before it, except for revokedAt of the
\* row with id u.
OnlyRevokedAtOf(tbl, tblAfter, u) ==
  /\ {r.id : r \in tblAfter} = {r.id : r \in tbl}
  /\ \A r \in tbl :
       IF r.id = u
         THEN [r EXCEPT !.revokedAt = Row(tblAfter, u).revokedAt] \in tblAfter
         ELSE r \in tblAfter

\* C22: an iteration of revokeAttestationsFromLogs changes nothing but
\* revokedAt of the row with the event's id in the table its schema selects:
\* the users, the other tables, the other rows, the other fields and both
\* checkpoints are as before.
C22_RevokeFrame ==
  [][\A t \in Pollers : \A u \in UIDs :
       RevokeStep(t, u) =>
         /\ db'.users = db.users
         /\ serviceStat' = serviceStat
         /\ IF Ledger[u].schemaId = makePostUID
              THEN OnlyRevokedAtOf(db.posts, db'.posts, u) ELSE db'.posts = db.posts
         /\ IF Ledger[u].schemaId = likeUID
              THEN OnlyRevokedAtOf(db.likes, db'.likes, u) ELSE db'.likes = db.likes
         /\ IF Ledger[u].schemaId = followUID
              THEN OnlyRevokedAtOf(db.follows, db'.follows, u)
              ELSE db'.follows = db.follows]_vars

\* A revocation has been applied to a post while user rows and the
\* checkpoint of the creation stream exist.
C22_Witness ==
  /\ \E r \in db.posts : r.revokedAt # 0
  /\ db.users # {}
  /\ HasStat(serviceStat, latestAttestationBlockNum)

\* Poller t is inside the dispatch of the Attested event of attestation u.
Dispatching(t, u) ==
  /\ task[t].pc = "dispatch"
  /\ task[t].logs[DispatchOrder(task[t].logs, task[t].order)[task[t].idx]].uid = u

\* C23: a user row that exists is never replaced by the lazy creation: across
\* every step it stays as it is, unless the step dispatches a username
\* attestation attested by that user, which changes its name only.  A name
\* other than "" is the name of a dispatched username attestation of that
\* user.
C23_UserRowsKept ==
  /\ [](\A q \in db.users :
          q.name # "" =>
            \E u \in UIDs :
              /\ Ledger[u].schemaId = usernameUID
              /\ Ledger[u].attester = q.id
              /\ Ledger[u].name = q.name
              /\ <<attestedEventSignature, u>> \in dispatched)
  /\ [][\A q \in db.users :
          \/ q \in db'.users
          \/ \E t \in Tasks : \E u \in UIDs :
               /\ Dispatching(t, u)
               /\ Ledger[u].schemaId = usernameUID
               /\ Ledger[u].attester = q.id
               /\ [q EXCEPT !.name = Ledger[u].name] \in db'.users]_vars

\* A post of a user was dispatched after the user had been created and
\* named by a username attestation: the row keeps the name and the earlier
\* createdAt, next to a second user the post created.
C23_Witness ==
  \E q \in db.users : \E p \in db.posts :
    /\ q.name # ""
    /\ p.userId = q.id
    /\ p.createdAt # q.createdAt
    /\ \E o \in db.users : o.id # q.id /\ o.name = ""

\* C24: whatever the link-preview block meets, processCreatedAttestation of
\* a post ends without an error and leaves the posts (and the users) it
\* leaves when the preview succeeds; a failure stores no LinkPreview row.
C24_PreviewFailureContained ==
  \A u \in UIDs :
    Ledger[u].schemaId = makePostUID =>
      LET ok == processCreatedAttestation(db, [Attestation(u) EXCEPT !.preview = "ok"])
      IN \A o \in PreviewOutcomes :
           LET r == processCreatedAttestation(db, [Attestation(u) EXCEPT !.preview = o])
           IN /\ r.err = "none"
              /\ r.db.posts = ok.db.posts
              /\ r.db.users = ok.db.users
              /\ o \in PreviewFailures => r.db.linkPreviews = db.linkPreviews

\* A post whose link preview fails has been created: its row is there, with
\* no LinkPreview row, and the call returned normally.
C24_Witness ==
  /\ call = "created"
  /\ \E p \in db.posts :
       /\ Ledger[p.id].preview \in PreviewFailures
       /\ \A v \in db.linkPreviews : v.postId # p.id

\* C25: the live handler writes the checkpoint of a stream that has no row
\* yet: the handler ends normally and the row exists, holding the block of
\* the event.
C25_LiveWriteCreatesRow ==
  [][\A t \in Lives :
       (WriteStep(t) /\ ~HasStat(serviceStat, task[t].stream)) =>
         /\ task'[t].pc = "idle"
         /\ HasStat(serviceStat', task[t].stream)
         /\ StatVal(serviceStat', task[t].stream) = task[t].logs[1].blockNumber]_vars

\* C26: every reference of the read model has its target: the user of a
\* post, its recipient, the user of a like and both users of a follow are
\* rows of users, the post of a like is a row of posts, and the parent of a
\* post is null or a row of posts.
C26_ReferentialIntegrity ==
  /\ \A p \in db.posts :
       /\ Has(db.users, p.userId)
       /\ Has(db.users, p.recipientId)
       /\ p.parentId = HashZero \/ Has(db.posts, p.parentId)
  /\ \A k \in db.likes :
       /\ Has(db.users, k.userId)
       /\ Has(db.posts, k.postId)
  /\ \A f \in db.follows :
       /\ Has(db.users, f.followerId)
       /\ Has(db.users, f.followingId)

\* A reply holds a reference to its parent post, written by another user.
C26_Witness ==
  \E p \in db.posts :
    /\ p.parentId # HashZero
    /\ Row(db.posts, p.parentId).userId # p.userId

\* C27: update() never rejects, and running is true exactly while a cycle
\* is in flight: the step that ends a cycle, normally or by an error, leaves
\* running false, and a call of update() made while running is false starts
\* a full cycle at the creation stream.
C27_UpdateResetsRunning ==
  /\ [](\A t \in Pollers : task[t].pc # "rejected")
  /\ [](running <=> \E t \in Pollers : task[t].pc # "idle")
  /\ [][\A t \in Pollers :
          /\ (task[t].pc # "idle" /\ task'[t].pc = "idle") => ~running'
          /\ (task[t].pc = "idle" /\ task'[t] # task[t] /\ ~running) =>
               /\ task'[t] = StartTask(latestAttestationBlockNum)
               /\ running']_vars

\* Every cycle so far ended by an error before its first checkpoint write,
\* and a later call of update() is running a new cycle.
C27_Witness ==
  /\ subscribed
  /\ serviceStat = {}
  /\ running
  /\ \E t \in Pollers : task[t].pc = "dispatch"

\* C28: when every awaited call returns and its continuation runs, a poll
\* cycle that has started ends, and running becomes false again.
C28_CycleTerminates ==
  /\ running ~> ~running
  /\ \A t \in Pollers : (task[t].pc # "idle") ~> (task[t].pc = "idle")

\* A cycle has run both streams to the end: update() returned, the handler
\* is subscribed and both checkpoint rows exist.
C28_Witness ==
  /\ ~running
  /\ subscribed
  /\ HasStat(serviceStat, latestAttestationBlockNum)
  /\ HasStat(serviceStat, latestAttestationRevocationBlockNum)
  /\ db.posts # {}

\* The logs the handler has to ignore: not of the EAS contract, or neither
\* an Attested nor a Revoked event, or of a schema outside the accepted set
\* of its event.
Irrelevant(log) ==
  \/ log.address # EASContractAddress
  \/ log.sig \notin {attestedEventSignature, revokedEventSignature}
  \/ /\ log.sig = attestedEventSignature
     /\ log.schema \notin {makePostUID, likeUID, usernameUID, followUID}
  \/ /\ log.sig = revokedEventSignature
     /\ log.schema \notin {makePostUID, likeUID, followUID}

\* C29: updateDbFromRelevantLog called with a log that is not of the EAS
\* contract, not an Attested or Revoked event, or of a schema its event does
\* not accept returns at once, with the read model and both checkpoints as
\* they were; every later step of a handler belongs to a relevant log and
\* leaves the checkpoint of the other stream as it was.
C29_IrrelevantLogIgnored ==
  [][\A t \in Lives :
       task'[t] # task[t] =>
         IF task[t].pc \in {"idle", "rejected"}
           THEN /\ db' = db
                /\ serviceStat' = serviceStat
                /\ Irrelevant(task'[t].logs[1]) <=> task'[t].pc = "idle"
           ELSE /\ ~Irrelevant(task[t].logs[1])
                /\ task[t].stream =
                     IF task[t].logs[1].sig = attestedEventSignature
                       THEN latestAttestationBlockNum
                       ELSE latestAttestationRevocationBlockNum
                /\ \A n \in StatNames :
                     n # task[t].stream =>
                       /\ HasStat(serviceStat', n) <=> HasStat(serviceStat, n)
                       /\ StatVal(serviceStat', n) = StatVal(serviceStat, n)]_vars

\* A relevant Attested event has been handled, moving the creation checkpoint
\* alone, and the handler has since returned at once on an irrelevant log.
C29_Witness ==
  /\ db.posts # {}
  /\ StatVal(serviceStat, latestAttestationBlockNum) = CONTRACT_START_BLOCK + 1
  /\ StatVal(serviceStat, latestAttestationRevocationBlockNum) = 0
  /\ \E t \in Lives :
       /\ task[t].pc = "idle"
       /\ task[t].skipped
       /\ Irrelevant(task[t].logs[1])
       /\ task[t].logs[1].address = EASContractAddress
       /\ task[t].logs[1].sig = revokedEventSignature

\* The state the handler starts from is one the program reaches.
InitLiveReached ==
  /\ db = EmptyDb
  /\ serviceStat = {[name |-> n, value |-> toString(0)] : n \in StatNames}
  /\ ~running
  /\ subscribed

====
